---- MODULE Spec2Model ----
(***************************************************************************)
(* Model of the Brightside query backend (src/main.py, and the identical   *)
(* Render variant src/unnamed/part_000): the text normaliser clean_text,   *)
(* the aggregation query_top_products and the POST /query handler          *)
(* query_products.                                                         *)
(*                                                                         *)
(* A text is a sequence of characters; a character is a one-element string *)
(* or one of the named characters NUL, LF, NBSP below.  A distance is a    *)
(* small natural number (only its order matters to the code).              *)
(***************************************************************************)
EXTENDS Integers, Sequences, FiniteSets, TLC

\* ------------------------------------------------------------- bounds
\* longest hit list the provider returns in the model (the code asks for 30)
MaxHits == 3
\* largest top_n of a request in the model
MaxTopN == 3
\* number of fragments an input text of clean_text is made of
MaxFrags == 6

\* ------------------------------------------------------------- characters
NUL == "NUL"      \* U+0000, a control character that is not whitespace
LF == "\n"        \* U+000A, a control character that is whitespace
NBSP == "NBSP"    \* U+00A0, whitespace that is not a control character

\* the class [\u0000-\u001F\u007F-\u009F] of the second substitution
Control == {NUL, LF}
\* the class \s of the third substitution, and what str.strip() removes
Whitespace == {" ", LF, NBSP}
\* the class \d of the first substitution
Digit == {"1", "2"}

\* ------------------------------------------------------------- clean_text
RECURSIVE DigitRun(_, _)
\* number of consecutive digits of text from position p on (the greedy \d+)
DigitRun(text, p) ==
    IF p <= Len(text) /\ text[p] \in Digit THEN 1 + DigitRun(text, p + 1) ELSE 0

\* length of the match of \(cid:\d+\) at position p of text, 0 when none
CidMatch(text, p) ==
    IF /\ p + 4 <= Len(text)
       /\ text[p] = "(" /\ text[p + 1] = "c" /\ text[p + 2] = "i"
       /\ text[p + 3] = "d" /\ text[p + 4] = ":"
    THEN LET n == DigitRun(text, p + 5)
         IN  IF n >= 1 /\ p + 5 + n <= Len(text) /\ text[p + 5 + n] = ")"
             THEN 6 + n
             ELSE 0
    ELSE 0

RECURSIVE SubCid(_, _)
\* re.sub(r"\(cid:\d+\)", "", text): one left-to-right pass over the input,
\* the matches are those of the input and do not overlap
SubCid(text, p) ==
    IF p > Len(text) THEN << >>
    ELSE LET m == CidMatch(text, p)
         IN  IF m > 0 THEN SubCid(text, p + m)
             ELSE <<text[p]>> \o SubCid(text, p + 1)

RECURSIVE SubRuns(_, _, _)
\* re.sub(r"[class]+", " ", text): every maximal run of class becomes one space
SubRuns(text, class, p) ==
    IF p > Len(text) THEN << >>
    ELSE IF text[p] \in class
         THEN IF p > 1 /\ text[p - 1] \in class
              THEN SubRuns(text, class, p + 1)
              ELSE <<" ">> \o SubRuns(text, class, p + 1)
         ELSE <<text[p]>> \o SubRuns(text, class, p + 1)

RECURSIVE LStrip(_)
LStrip(text) ==
    IF text # << >> /\ Head(text) \in Whitespace THEN LStrip(Tail(text)) ELSE text

RECURSIVE RStrip(_)
RStrip(text) ==
    IF text # << >> /\ text[Len(text)] \in Whitespace
    THEN RStrip(SubSeq(text, 1, Len(text) - 1))
    ELSE text

\* str.strip()
Strip(text) == RStrip(LStrip(text))

clean_text(text) ==
    LET cleaned1 == SubCid(text, 1)
        cleaned2 == SubRuns(cleaned1, Control, 1)
    IN  Strip(SubRuns(cleaned2, Whitespace, 1))

\* ------------------------------------------------------------- state
VARIABLES
    pc,              \* position of the request, or of the clean_text run
    top_n,           \* req.top_n
    search_results,  \* what collection.query returned: the hits, in order
    i,               \* index of the next hit of the zip loop
    product_hits,    \* the dict product_hits, as its values in insertion order
    grouped_chunks,  \* the defaultdict grouped_chunks: product -> raw texts
    response,        \* what the handler answered
    text,            \* input of clean_text
    cleaned,         \* clean_text(text)
    recleaned,       \* clean_text(clean_text(text))
    error            \* text of the exception collection.query raised, or NoError

vars == <<pc, top_n, search_results, i, product_hits, grouped_chunks,
          response, text, cleaned, recleaned, error>>

\* ------------------------------------------------------------- inputs
\* raw chunk texts the provider may return: one holding the join separator
\* and whitespace, one that is nothing but an extraction artifact
Docs == { <<"a", LF, LF, "b", " ">>, <<"(", "c", "i", "d", ":", "1", ")">> }

\* a dict without keys
EmptyDict == [k \in {} |-> ""]

\* metadata dicts the provider may return; each of the fields filename,
\* product and source_type is optional
Metadatas ==
    { [product |-> "P1", filename |-> "f1.pdf", source_type |-> "pdf"],
      [filename |-> "P1"],
      EmptyDict }

\* distances the provider may return
Distances == {1, 2}

\* one (doc, metadata, distance) triple of the zip
Hits == [doc : Docs, metadata : Metadatas, distance : Distances]

HitLists == UNION { [1..n -> Hits] : n \in 0..MaxHits }

TopNs == (0 - 1)..MaxTopN

\* texts of failures of collection.query
Failures == {"index unavailable", "corrupted index"}

\* the values of the product and filename fields and the default, of which
\* the keys of the two dicts are drawn
Products == {"P1", "f1.pdf", "Unknown"}

NoResponse == [status |-> 0]

NoError == "none"

\* ------------------------------------------------------------- helpers
\* dict.get(key, default)
Get(d, key, default) == IF key \in DOMAIN d THEN d[key] ELSE default

\* filename = metadata.get("filename", "Unknown")
Filename(metadata) == Get(metadata, "filename", "Unknown")

\* a slip: the filename is not the fallback of the product
ProductWithoutFallback(metadata) == Get(metadata, "product", "Unknown")

\* product = metadata.get("product", filename)
Product(metadata) == Get(metadata, "product", Filename(metadata))

\* source_type = metadata.get("source_type", "unknown")
SourceType(metadata) == Get(metadata, "source_type", "unknown")

\* position of key product in the dict, 0 when it is not a key
IndexOf(hits, product) ==
    IF \E k \in 1..Len(hits) : hits[k].product = product
    THEN CHOOSE k \in 1..Len(hits) : hits[k].product = product
    ELSE 0

\* a slip: <= for <, so that a later hit of equal distance replaces the summary
IsBetterOrEqual(hits, product, distance) ==
    \/ IndexOf(hits, product) = 0
    \/ distance <= hits[IndexOf(hits, product)].match_score

\* product not in product_hits or distance < product_hits[product]["match_score"]
IsBetter(hits, product, distance) ==
    \/ IndexOf(hits, product) = 0
    \/ distance < hits[IndexOf(hits, product)].match_score

\* a slip: a list of summaries appended to instead of a dict
SetItemAppend(hits, product, value) == Append(hits, value)

\* a slip: the replaced key is deleted and inserted anew, at the end
SetItemReinsert(hits, product, value) ==
    Append(SelectSeq(hits, LAMBDA h : h.product # product), value)

\* product_hits[product] = value: a new key is appended to the dict's order,
\* an existing key keeps its place
SetItem(hits, product, value) ==
    IF IndexOf(hits, product) = 0
    THEN Append(hits, value)
    ELSE [hits EXCEPT ![IndexOf(hits, product)] = value]

\* the dict literal stored for a hit
NewSummary(hit) ==
    [product |-> Product(hit.metadata),
     filename |-> Filename(hit.metadata),
     source_type |-> SourceType(hit.metadata),
     match_score |-> hit.distance,
     matched_chunk |-> clean_text(hit.doc),
     full_document |-> << >>]

RECURSIVE Join(_)
\* "\n\n".join(chunks)
Join(chunks) ==
    IF chunks = << >> THEN << >>
    ELSE IF Len(chunks) = 1 THEN chunks[1]
    ELSE chunks[1] \o <<LF, LF>> \o Join(Tail(chunks))

\* a slip: the raw chunks are joined
FullTextRaw(full_chunks) == Join(full_chunks)

\* "\n\n".join(clean_text(chunk) for chunk in full_chunks)
FullText(full_chunks) ==
    Join([k \in 1..Len(full_chunks) |-> clean_text(full_chunks[k])])

RECURSIVE InsertSorted(_, _)
\* x placed after every element whose match_score is <= its own
InsertSorted(s, x) ==
    IF s = << >> THEN <<x>>
    ELSE IF Head(s).match_score <= x.match_score
         THEN <<Head(s)>> \o InsertSorted(Tail(s), x)
         ELSE <<x>> \o s

\* a slip: no sort
Unsorted(values) == values

RECURSIVE Sorted(_)
\* sorted(values, key=lambda x: x["match_score"]): ascending and stable
Sorted(values) ==
    IF values = << >> THEN << >>
    ELSE InsertSorted(Sorted(SubSeq(values, 1, Len(values) - 1)),
                      values[Len(values)])

\* a slip: the slice ends one early
SliceToBefore(sorted_hits, n) ==
    SubSeq(sorted_hits, 1, IF n - 1 < Len(sorted_hits) THEN n - 1 ELSE Len(sorted_hits))

\* sorted_hits[:n]
SliceTo(sorted_hits, n) ==
    IF n >= 0
    THEN SubSeq(sorted_hits, 1, IF n < Len(sorted_hits) THEN n ELSE Len(sorted_hits))
    ELSE SubSeq(sorted_hits, 1, Len(sorted_hits) + n)

\* return {"results": results}
Success(results) == [status |-> 200, results |-> results]

\* a slip: the failure is swallowed into an empty success
EmptySuccess(e) == [status |-> 200, results |-> << >>]

\* raise HTTPException(status_code=500, detail=str(e))
InternalError(e) == [status |-> 500, detail |-> e]

\* ------------------------------------------------------------- the request
Init ==
    /\ pc = "start"
    /\ top_n \in TopNs
    /\ search_results = << >>
    /\ i = 1
    /\ product_hits = << >>
    /\ grouped_chunks = [p \in Products |-> << >>]
    /\ response = NoResponse
    /\ text = << >>
    /\ cleaned = << >>
    /\ recleaned = << >>
    /\ error = NoError

\* collection.query returns its hits
QueryReturns ==
    /\ pc = "start"
    /\ \E hs \in HitLists : search_results' = hs
    /\ pc' = "loop"
    /\ UNCHANGED <<top_n, i, product_hits, grouped_chunks, response,
                   text, cleaned, recleaned, error>>

\* collection.query raises; query_top_products lets the exception through
QueryRaises ==
    /\ pc = "start"
    /\ \E e \in Failures : error' = e
    /\ pc' = "except"
    /\ UNCHANGED <<top_n, search_results, i, product_hits, grouped_chunks,
                   response, text, cleaned, recleaned>>

\* the handler's except clause
HandleException ==
    /\ pc = "except"
    /\ response' = InternalError(error)
    /\ pc' = "done"
    /\ UNCHANGED <<top_n, search_results, i, product_hits, grouped_chunks,
                   text, cleaned, recleaned, error>>

\* one iteration of the zip loop
LoopBody ==
    /\ pc = "loop"
    /\ i <= Len(search_results)
    /\ LET hit == search_results[i]
           product == Product(hit.metadata)
       IN  /\ product_hits' =
                 IF IsBetter(product_hits, product, hit.distance)
                 THEN SetItem(product_hits, product, NewSummary(hit))
                 ELSE product_hits
           /\ grouped_chunks' =
                 [grouped_chunks EXCEPT ![product] = Append(@, hit.doc)]
    /\ i' = i + 1
    /\ UNCHANGED <<pc, top_n, search_results, response, text, cleaned, recleaned, error>>

\* the loop over product_hits that fills in full_document
FillFullDocuments ==
    /\ pc = "loop"
    /\ i > Len(search_results)
    /\ product_hits' =
          [k \in 1..Len(product_hits) |->
              [product_hits[k] EXCEPT
                  !.full_document = FullText(grouped_chunks[product_hits[k].product])]]
    /\ pc' = "sort"
    /\ UNCHANGED <<top_n, search_results, i, grouped_chunks, response,
                   text, cleaned, recleaned, error>>

\* sort, slice, and the handler's successful answer
SortAndReturn ==
    /\ pc = "sort"
    /\ response' = Success(SliceTo(Sorted(product_hits), top_n))
    /\ pc' = "done"
    /\ UNCHANGED <<top_n, search_results, i, product_hits, grouped_chunks,
                   text, cleaned, recleaned, error>>

Next ==
    \/ QueryReturns
    \/ QueryRaises
    \/ HandleException
    \/ LoopBody
    \/ FillFullDocuments
    \/ SortAndReturn

Spec == Init /\ [][Next]_vars

\* ------------------------------------------------------------- clean_text alone
\* the pieces input texts are made of
Frags ==
    { <<"(", "c", "i", "d", ":">>, <<"1">>, <<")">>, <<NUL>>, <<NBSP>>, <<" ">>, <<"a">> }

RECURSIVE Concat(_)
Concat(fs) == IF fs = << >> THEN << >> ELSE Head(fs) \o Concat(Tail(fs))

\* the texts made of at most max fragments
Texts(max) == { Concat(fs) : fs \in UNION { [1..n -> Frags] : n \in 0..max } }

InitClean ==
    /\ pc = "text"
    /\ text \in Texts(MaxFrags)
    /\ cleaned = << >>
    /\ recleaned = << >>
    /\ error = NoError
    /\ top_n = 0
    /\ search_results = << >>
    /\ i = 1
    /\ product_hits = << >>
    /\ grouped_chunks = [p \in Products |-> << >>]
    /\ response = NoResponse

\* cleaned = clean_text(text)
CleanOnce ==
    /\ pc = "text"
    /\ cleaned' = clean_text(text)
    /\ pc' = "cleaned"
    /\ UNCHANGED <<text, recleaned, top_n, search_results, i, product_hits,
                   grouped_chunks, response, error>>

\* recleaned = clean_text(cleaned)
CleanAgain ==
    /\ pc = "cleaned"
    /\ recleaned' = clean_text(cleaned)
    /\ pc' = "recleaned"
    /\ UNCHANGED <<text, cleaned, top_n, search_results, i, product_hits,
                   grouped_chunks, response, error>>

NextClean == CleanOnce \/ CleanAgain

SpecClean == InitClean /\ [][NextClean]_vars

\* ------------------------------------------------------------- properties
\* the handler answered a request whose provider call succeeded
Answered == pc = "done" /\ error = NoError

Results == response.results

\* the grouping key as the specification states it: the product field if
\* present, otherwise the filename field, otherwise "Unknown"
KeyOf(hit) ==
    IF "product" \in DOMAIN hit.metadata THEN hit.metadata.product
    ELSE IF "filename" \in DOMAIN hit.metadata THEN hit.metadata.filename
    ELSE "Unknown"

\* the distinct entities of the hit list
Entities == { KeyOf(search_results[j]) : j \in 1..Len(search_results) }

\* the positions of the hits of entity E
HitsOf(E) == { j \in 1..Len(search_results) : KeyOf(search_results[j]) = E }

\* the least distance among the hits of entity E
MinDistance(E) ==
    CHOOSE d \in { search_results[j].distance : j \in HitsOf(E) } :
        \A j \in HitsOf(E) : d <= search_results[j].distance

\* the earliest hit of entity E at that least distance
EarliestBest(E) ==
    LET m == MinDistance(E)
        best == { j \in HitsOf(E) : search_results[j].distance = m }
    IN  CHOOSE j \in best : \A k \in best : j <= k

\* the position at which entity E is first seen
FirstSeen(E) == CHOOSE j \in HitsOf(E) : \A k \in HitsOf(E) : j <= k

\* the cleaned texts of the hits of entity E, in the provider's order
CleanedTextsOf(E) ==
    LET sel == SelectSeq(search_results, LAMBDA h : KeyOf(h) = E)
    IN  [k \in 1..Len(sel) |-> clean_text(sel[k].doc)]

\* the raw texts of the hits of entity E, in the provider's order
RawTextsOf(E) ==
    LET sel == SelectSeq(search_results, LAMBDA h : KeyOf(h) = E)
    IN  [k \in 1..Len(sel) |-> sel[k].doc]

RECURSIVE Split(_)
\* s.split("\n\n")
Split(s) ==
    LET seps == { p \in 1..(Len(s) - 1) : s[p] = LF /\ s[p + 1] = LF }
    IN  IF seps = {} THEN <<s>>
        ELSE LET p == CHOOSE q \in seps : \A r \in seps : q <= r
             IN  <<SubSeq(s, 1, p - 1)>> \o Split(SubSeq(s, p + 2, Len(s)))

Min(a, b) == IF a <= b THEN a ELSE b

\* C1: for every hit list and every top_n <= 0, zero and negative alike,
\* query_top_products returns the empty sequence.
C1_NonPositiveTopNIsEmpty ==
    (Answered /\ top_n <= 0) => Results = << >>

\* C2: clean_text is idempotent: cleaning a cleaned text changes nothing,
\* also when removing an artifact leaves text that forms a new artifact.
C2_CleanTextIdempotent ==
    pc = "recleaned" => recleaned = cleaned

\* C3: every returned entity's match_score is the least distance among the
\* hits of that entity, and its matched_chunk is clean_text of the earliest
\* hit at that distance.
C3_BestDistanceAndSnippet ==
    Answered =>
        \A k \in 1..Len(Results) :
            LET E == Results[k].product
            IN  /\ HitsOf(E) # {}
                /\ Results[k].match_score = MinDistance(E)
                /\ Results[k].matched_chunk =
                       clean_text(search_results[EarliestBest(E)].doc)

\* a returned entity has two hits at its least distance whose cleaned texts differ
C3_Witness ==
    /\ Answered
    /\ \E k \in 1..Len(Results) :
          \E j \in HitsOf(Results[k].product) :
              /\ j > EarliestBest(Results[k].product)
              /\ search_results[j].distance = MinDistance(Results[k].product)
              /\ clean_text(search_results[j].doc) # Results[k].matched_chunk

\* C4: every returned entity's full_document, split on the two-newline
\* separator, is the sequence of clean_text(text) of all hits of that entity
\* in the provider's order.
C4_FullDocumentComplete ==
    Answered =>
        \A k \in 1..Len(Results) :
            Split(Results[k].full_document) = CleanedTextsOf(Results[k].product)

\* a returned entity has a hit before and a hit after its representative,
\* and a raw text that holds the separator
C4_Witness ==
    /\ Answered
    /\ \E k \in 1..Len(Results) :
          LET E == Results[k].product
          IN  /\ \E j \in HitsOf(E) : j < EarliestBest(E)
              /\ \E j \in HitsOf(E) : j > EarliestBest(E)
              /\ \E j \in HitsOf(E) : Len(Split(search_results[j].doc)) > 1

\* C5: for a positive top_n the output holds min(top_n, number of distinct
\* entities) summaries, and no entity left out has a strictly smaller
\* match_score than a returned one.
C5_Truncation ==
    (Answered /\ top_n > 0) =>
        /\ Len(Results) = Min(top_n, Cardinality(Entities))
        /\ \A E \in Entities :
              (\A k \in 1..Len(Results) : Results[k].product # E) =>
                  \A k \in 1..Len(Results) :
                      Results[k].match_score <= MinDistance(E)

\* fewer summaries are returned than there are entities, and an entity left
\* out was seen before a returned one
C5_Witness ==
    /\ Answered
    /\ top_n > 0
    /\ Len(Results) = top_n
    /\ top_n < Cardinality(Entities)
    /\ \E E \in Entities :
          /\ \A k \in 1..Len(Results) : Results[k].product # E
          /\ \E k \in 1..Len(Results) : FirstSeen(E) < FirstSeen(Results[k].product)

\* C6: when collection.query fails the handler never answers with a success:
\* its one answer is the error 500 carrying the failure's text, without results.
C6_ProviderFailureIsAnError ==
    error # NoError =>
        /\ response.status # 200
        /\ "results" \notin DOMAIN response
        /\ pc = "done" => response = [status |-> 500, detail |-> error]

\* the handler answered a request whose provider call failed
C6_Witness ==
    pc = "done" /\ error \in Failures /\ response.status = 500

\* C7: the output is non-decreasing in match_score.
C7_SortedByMatchScore ==
    Answered =>
        \A k \in 1..(Len(Results) - 1) :
            Results[k].match_score <= Results[k + 1].match_score

\* two entities are returned, and the one seen first has the larger match_score
C7_Witness ==
    /\ Answered
    /\ \E k \in 1..(Len(Results) - 1) :
          /\ Results[k].match_score < Results[k + 1].match_score
          /\ FirstSeen(Results[k + 1].product) < FirstSeen(Results[k].product)

\* C8: no two returned summaries have the same product.
C8_OneSummaryPerProduct ==
    Answered =>
        \A j, k \in 1..Len(Results) :
            Results[j].product = Results[k].product => j = k

\* a returned entity has several hits, and a later one replaced its summary
C8_Witness ==
    /\ Answered
    /\ \E k \in 1..Len(Results) :
          /\ Cardinality(HitsOf(Results[k].product)) >= 2
          /\ EarliestBest(Results[k].product) # FirstSeen(Results[k].product)

\* C9: the hits are grouped by the product field if present, otherwise the
\* filename field, otherwise "Unknown": after the loop the summaries are those
\* of the distinct keys and each key's chunks are the texts of its hits; the
\* aggregation of a successful provider call answers with a success.
C9_GroupingKey ==
    /\ (pc \in {"sort", "done"} /\ error = NoError) =>
          /\ { product_hits[k].product : k \in 1..Len(product_hits) } = Entities
          /\ \A E \in Products :
                grouped_chunks[E] =
                    IF E \in Entities THEN RawTextsOf(E) ELSE << >>
    /\ Answered => response.status = 200

\* a hit without product whose filename is another hit's product joined that
\* hit's entity, and a hit without any metadata field was aggregated
C9_Witness ==
    /\ Answered
    /\ \E j, k \in 1..Len(search_results) :
          /\ "product" \notin DOMAIN search_results[j].metadata
          /\ "product" \in DOMAIN search_results[k].metadata
          /\ "filename" \in DOMAIN search_results[j].metadata
          /\ search_results[j].metadata.filename = search_results[k].metadata.product
          /\ Len(grouped_chunks[search_results[k].metadata.product]) >= 2
    /\ \E j \in 1..Len(search_results) : DOMAIN search_results[j].metadata = {}
    /\ \E k \in 1..Len(Results) : Results[k].product = "Unknown"

\* C10: returned entities of equal match_score are in the order in which
\* they were first seen in the hit list.
C10_TiesInFirstSeenOrder ==
    Answered =>
        \A j, k \in 1..Len(Results) :
            (j < k /\ Results[j].match_score = Results[k].match_score) =>
                FirstSeen(Results[j].product) < FirstSeen(Results[k].product)

\* two returned entities tie, and the one seen first reached the tie by a
\* hit that came after the other entity was first seen
C10_Witness ==
    /\ Answered
    /\ \E j, k \in 1..Len(Results) :
          /\ j < k
          /\ Results[j].match_score = Results[k].match_score
          /\ EarliestBest(Results[j].product) > FirstSeen(Results[k].product)

====
